---- MODULE Spec2Model ----
(***************************************************************************)
(* A model of src/main.py: load_column_mappings, validate_mapping_config,  *)
(* process_files (the per-file loop: pre-checks, parse, normalisation,     *)
(* sink load, statistics) and main (save, summary, exit status).           *)
(*                                                                         *)
(* Python values are modelled as data: an optional value is <<>> (None)    *)
(* or <<x>>, a scalar cell is a record of its type and its printed form, a *)
(* dict is the sequence of its items in iteration order.  The              *)
(* collaborators (file system, YAML and JSON parsers, pandas readers, the  *)
(* BigQuery client) are the environment: each call either returns one of a *)
(* bounded set of values or raises.                                        *)
(***************************************************************************)
EXTENDS Integers, Sequences, FiniteSets, TLC

VARIABLES
    pc,            \* position in main / process_files
    mappings,      \* process_files: the loaded mapping document
    listing,       \* the result of os.listdir(directory)
    idx,           \* 1-based position of the loop over listing
    stats,         \* process_files: filename -> FileStats
    file_mapping,  \* process_files: mappings[filename] of the current entry
    valid,         \* what validate_mapping_config returned for it (<<>> before)
    df,            \* process_files: the parsed dataset of the current entry
    json_rows,     \* process_files: the normalised records of the current entry
    sink_batch,    \* the rows handed to load_table_from_json for the current entry
    exc,           \* the exception raised in this iteration or in flight to main
                   \* (<<>> when none)
    clock,         \* the wall clock read by datetime.now()
    sink_log,      \* every load_table_from_json call so far
    parse_log,     \* the files handed to pd.read_excel / pd.read_csv so far
    warnings,      \* the warnings printed so far
    returned,      \* whether process_files has returned stats to main
    stats_file,    \* what save_statistics wrote (<<>> before)
    exit_status    \* "running", "0" or "1"

vars == <<pc, mappings, listing, idx, stats, file_mapping, valid, df, json_rows,
          sink_batch, exc,
          clock, sink_log, parse_log, warnings, returned, stats_file, exit_status>>

----------------------------------------------------------------------------
(* Bounds of the model *)

\* the longest directory listing
MaxFiles == 2
\* the most data rows in one file
MaxRows == 2

----------------------------------------------------------------------------
(* Python values *)

Null == <<>>
Some(x) == <<x>>

\* a scalar: its Python type and the text str() gives for it
Scalar(kind, text) == [kind |-> kind, text |-> text, items |-> <<>>]
\* a list value (the Attributes cell of a row)
ListValue(items) == [kind |-> "list", text |-> "", items |-> items]

PyNone == Scalar("NoneType", "None")
NaN == Scalar("float", "nan")
FloatCell == Scalar("float", "7.5")
StrCell == Scalar("str", "x")
\* what strftime('%Y-%m-%d %H:%M:%S') of pd.Timestamp.now() gives
NowText == Scalar("str", "2024-01-01 00:00:00")

\* pd.isna(value) / pd.notna(value) of a scalar
isna(value) == value = PyNone \/ value = NaN
\* the variant that tests `is not None` only
notna_none_only(value) == value # PyNone
notna(value) == ~isna(value)
\* str(value)
str(value) == value.text

\* str.endswith(suffix)
endswith(s, suffix) ==
    /\ Len(s) >= Len(suffix)
    /\ SubSeq(s, Len(s) - Len(suffix) + 1, Len(s)) = suffix

\* str.endswith((a, b, ...))
endswith_any(s, suffixes) == \E suffix \in suffixes : endswith(s, suffix)

\* a parsed YAML/JSON value used where a dict is expected: a dict with the
\* given items (in iteration order, keys distinct), or a value of another type
Dict(items) == [kind |-> "dict", items |-> items]
NotADict(kind) == [kind |-> kind, items |-> <<>>]
isinstance_dict(value) == value.kind = "dict"

\* an exception object; str(e) is its message
Exception(type, msg) == [type |-> type, msg |-> msg]
ExcText(e) == e.msg

\* the result of a call: a returned value, or a raised exception
Return(value) == [raised |-> FALSE, value |-> value, exc |-> Exception("", "")]
Raise(e, dummy) == [raised |-> TRUE, value |-> dummy, exc |-> e]

----------------------------------------------------------------------------
(* The inputs the environment can supply *)

FileNames == {"a.csv", "b.xlsx", "n.txt"}

\* os.listdir: distinct names, in any order
Listings ==
    {s \in UNION {[1..n -> FileNames] : n \in 0..MaxFiles} :
        \A i, j \in DOMAIN s : i # j => s[i] # s[j]}

MappingFileNames == {"m.yaml", "m.yml", "m.json", "m.txt"}

\* a column-mapping target: a field name, or an unhashable YAML value (a dict)
Target(name) == [hashable |-> TRUE, name |-> name]
UnhashableTarget == [hashable |-> FALSE, name |-> "{}"]

ColumnMappings ==
    { <<>>,
      << <<"name", Target("Id")>> >>,
      << <<"name", Target("Id")>>, <<"email", Target("Id")>> >>,
      << <<"email", Target("Email")>>, <<"name", Target("FirstName")>> >>,
      << <<"email", Target("DataSource")>> >>,
      << <<"name", Target("SourceFile")>> >>,
      << <<"name", Target("BQInsertedDate")>> >>,
      << <<"name", Target("Attributes")>> >>,
      << <<"email", Target("Nickname")>> >>,
      << <<"email", UnhashableTarget>> >> }

AttributeMappings ==
    { <<>>,
      << <<"name", "Nick">> >>,
      << <<"email", "Mail">>, <<"name", "Nick">> >> }

\* one file's entry of the mapping document: a dict with the given keys
\* present, or a value of another type
FileMapping(keys, columns, attributes, data_source) ==
    [kind |-> "dict", keys |-> keys, columns |-> columns,
     attributes |-> attributes, data_source |-> data_source]
\* (keys: the elements, when the value is a list)
NotAFileMapping(kind) ==
    [kind |-> kind, keys |-> {}, columns |-> NotADict("NoneType"),
     attributes |-> NotADict("NoneType"), data_source |-> ""]

BaseColumns == << <<"email", Target("Email")>>, <<"name", Target("FirstName")>> >>

InvalidFileMappings ==
    { NotAFileMapping("NoneType"),
      NotAFileMapping("list"),
      FileMapping({"data_source"}, NotADict("NoneType"), NotADict("NoneType"), "crm"),
      FileMapping({"columns"}, NotADict("list"), NotADict("NoneType"), ""),
      FileMapping({"columns", "attributes"}, Dict(BaseColumns), NotADict("list"), ""),
      FileMapping({"columns", "attributes"}, Dict(BaseColumns), NotADict("NoneType"), "") }

ValidFileMappings ==
    { FileMapping({"columns"}, Dict(c), NotADict("NoneType"), "") : c \in ColumnMappings }
    \cup { FileMapping({"columns", "attributes"}, Dict(BaseColumns), Dict(a), "") :
             a \in AttributeMappings }
    \cup { FileMapping({"columns", "attributes", "data_source"},
                       Dict(<< <<"name", Target("Attributes")>> >>),
                       Dict(<< <<"email", "Mail">>, <<"name", "Nick">> >>), "crm") }

FileMappings == InvalidFileMappings \cup ValidFileMappings

\* what yaml.safe_load / json.load can return: a dict from filenames to
\* entries, None (an empty YAML document) or a list of names
\* (every key of one document maps to the same entry)
MappedNames == { {}, {"a.csv", "n.txt"}, FileNames }
MappingDocument(kind, keys, value) == [kind |-> kind, keys |-> keys, value |-> value]
NoMappings == MappingDocument("unset", {}, NotAFileMapping("NoneType"))
MappingDocuments ==
    { MappingDocument("dict", k, fm) : k \in MappedNames, fm \in FileMappings }
    \cup { MappingDocument("NoneType", {}, NotAFileMapping("NoneType")),
           MappingDocument("list", FileNames, NotAFileMapping("NoneType")) }

\* a parsed dataset: its column set and its rows, in file order
Headers == { {"name"}, {"name", "email"} }
\* the cells a column can hold: a blank, and a text or a number
CellValues(c) == IF c = "name" THEN {NaN, StrCell} ELSE {NaN, FloatCell}
Rows(h) == { r \in [h -> {NaN, StrCell, FloatCell}] : \A c \in h : r[c] \in CellValues(c) }
DataFrame(columns, rows) == [columns |-> columns, rows |-> rows]
NoFrame == DataFrame({}, <<>>)
DatasetsOf(h) ==
    { DataFrame(h, r) : r \in UNION {[1..n -> Rows(h)] : n \in 0..MaxRows} }
Datasets == UNION {DatasetsOf(h) : h \in Headers}

----------------------------------------------------------------------------
(* load_column_mappings *)

\* what the file system and the parser do with the mapping file:
\* open() fails, the parser fails, or the parser returns a document
MappingFileContents ==
    { [opens |-> FALSE, parses |-> FALSE, doc |-> NoMappings],
      [opens |-> TRUE, parses |-> FALSE, doc |-> NoMappings] }
    \cup { [opens |-> TRUE, parses |-> TRUE, doc |-> d] : d \in MappingDocuments }

LoaderError(detail) == Exception("Exception", "Error loading mapping file: " \o detail)

load_column_mappings(mapping_file, content) ==
    IF ~content.opens
    THEN Raise(LoaderError("No such file or directory"), NoMappings)
    ELSE IF endswith_any(mapping_file, {".yaml", ".yml"})
    THEN IF content.parses THEN Return(content.doc)
         ELSE Raise(LoaderError("could not parse YAML"), NoMappings)
    ELSE IF endswith(mapping_file, ".json")
    THEN IF content.parses THEN Return(content.doc)
         ELSE Raise(LoaderError("Expecting value"), NoMappings)
    ELSE Raise(LoaderError("Mapping file must be either YAML or JSON"), NoMappings)

----------------------------------------------------------------------------
(* validate_mapping_config *)

\* `key in value`: membership in a dict's keys or a list's elements; raises
\* TypeError on a value that is no container
contains(value, key) ==
    IF value.kind \in {"dict", "list"} THEN Return(key \in value.keys)
    ELSE Raise(Exception("TypeError", "argument of type '" \o value.kind
                                      \o "' is not iterable"), FALSE)

\* the variant without the check of the attributes value
validate_without_attributes_check(mapping, filename) ==
    IF ~isinstance_dict(mapping) THEN Return(FALSE)
    ELSE IF ~contains(mapping, "columns").value THEN Return(FALSE)
    ELSE IF ~isinstance_dict(mapping.columns) THEN Return(FALSE)
    ELSE Return(TRUE)

\* lines 23-33
validate_mapping_config(mapping, filename) ==
    IF ~isinstance_dict(mapping) THEN Return(FALSE)
    ELSE IF contains(mapping, "columns").raised THEN contains(mapping, "columns")
    ELSE IF ~contains(mapping, "columns").value THEN Return(FALSE)
    ELSE IF ~isinstance_dict(mapping.columns) THEN Return(FALSE)
    ELSE IF contains(mapping, "attributes").raised THEN contains(mapping, "attributes")
    ELSE IF contains(mapping, "attributes").value /\ ~isinstance_dict(mapping.attributes)
    THEN Return(FALSE)
    ELSE Return(TRUE)

----------------------------------------------------------------------------
(* The record normalisation of process_files, lines 102-151 *)

DefaultFields ==
    { "DataSource", "SourceCreatedDate", "SourceModifiedDate", "SourceFile",
      "BQInsertedDate", "Id", "FirstName", "LastName", "Email", "Mobile", "PostCode" }

\* the fields line 146 exempts from null normalisation
ExemptFields == {"BQInsertedDate", "SourceFile", "Attributes"}

\* len(df)
len(frame) == Len(frame.rows)
\* the variant that reads the column bottom-up
column_reversed(frame, source_col) ==
    [i \in 1..len(frame) |-> frame.rows[len(frame) + 1 - i][source_col]]
\* df[source_col]
column(frame, source_col) == [i \in 1..len(frame) |-> frame.rows[i][source_col]]
\* a scalar assigned to a column is broadcast over the index
broadcast(n, value) == [i \in 1..n |-> value]
\* new_df[c] = col, on a frame held as a function from column name to column
set_column(new_df, c, col) ==
    [k \in DOMAIN new_df \cup {c} |-> IF k = c THEN col ELSE new_df[k]]

\* file_mapping.get('data_source', 'unknown')
get_data_source(fm) ==
    IF "data_source" \in fm.keys THEN fm.data_source ELSE "unknown"

\* lines 102-115: the frame of defaults, one row per input row
default_frame(n, fm, filename) ==
    [c \in DefaultFields |->
        CASE c = "DataSource" -> broadcast(n, Scalar("str", get_data_source(fm)))
          [] c \in {"SourceCreatedDate", "SourceModifiedDate", "BQInsertedDate"} ->
                broadcast(n, NowText)
          [] c = "SourceFile" -> broadcast(n, Scalar("str", filename))
          [] OTHER -> broadcast(n, PyNone)]

Warning(source_col, filename) == [column |-> source_col, file |-> filename]

\* the variant that leaves the loop at the first absent source column
RECURSIVE apply_columns_break(_, _, _, _, _)
apply_columns_break(items, k, frame, filename, acc) ==
    IF k > Len(items) THEN acc
    ELSE LET source_col == items[k][1]
             target_col == items[k][2]
         IN IF source_col \in frame.columns
            THEN IF ~target_col.hashable
                 THEN [acc EXCEPT !.raised = TRUE,
                                  !.exc = Exception("TypeError", "unhashable type: 'dict'")]
                 ELSE apply_columns_break(items, k + 1, frame, filename,
                        [acc EXCEPT !.new_df =
                            set_column(acc.new_df, target_col.name,
                                       column(frame, source_col))])
            ELSE [acc EXCEPT !.warned = acc.warned \cup {Warning(source_col, filename)}]

\* lines 117-121, from item k on: assign each present source column to its
\* target, warn for each absent one; an unhashable target raises TypeError
RECURSIVE apply_columns(_, _, _, _, _)
apply_columns(items, k, frame, filename, acc) ==
    IF k > Len(items) THEN acc
    ELSE LET source_col == items[k][1]
             target_col == items[k][2]
         IN IF source_col \in frame.columns
            THEN IF ~target_col.hashable
                 THEN [acc EXCEPT !.raised = TRUE,
                                  !.exc = Exception("TypeError", "unhashable type: 'dict'")]
                 ELSE apply_columns(items, k + 1, frame, filename,
                        [acc EXCEPT !.new_df =
                            set_column(acc.new_df, target_col.name,
                                       column(frame, source_col))])
            ELSE apply_columns(items, k + 1, frame, filename,
                    [acc EXCEPT !.warned = acc.warned \cup {Warning(source_col, filename)}])

\* lines 127-135, from item k on: one row's attribute entries
RECURSIVE row_attributes(_, _, _, _)
row_attributes(items, k, frame, i) ==
    IF k > Len(items) THEN <<>>
    ELSE LET source_col == items[k][1]
             attr_name == items[k][2]
             rest == row_attributes(items, k + 1, frame, i)
         IN IF source_col \in frame.columns /\ notna(frame.rows[i][source_col])
            THEN <<[Key |-> attr_name, Value |-> str(frame.rows[i][source_col])]>> \o rest
            ELSE rest

\* lines 123-138
attributes_list(frame, fm) ==
    IF "attributes" \in fm.keys
    THEN [i \in 1..len(frame) |-> row_attributes(fm.attributes.items, 1, frame, i)]
    ELSE [i \in 1..len(frame) |-> <<>>]

\* lines 145-150: one value of a row dict
normalize_value(key, value) ==
    IF key \notin ExemptFields
    THEN IF value.kind \in {"Series", "DataFrame"} THEN PyNone
         ELSE IF isna(value) THEN PyNone
         ELSE value
    ELSE value

\* lines 142-151
to_json_rows(new_df, n) ==
    [i \in 1..n |-> [key \in DOMAIN new_df |-> normalize_value(key, new_df[key][i])]]

\* lines 102-151 as a whole: the records, the warnings, or the exception
normalize(frame, fm, filename) ==
    LET n == len(frame)
        applied == apply_columns(fm.columns.items, 1, frame, filename,
                     [new_df |-> default_frame(n, fm, filename), warned |-> {},
                      raised |-> FALSE, exc |-> Exception("", "")])
        attrs == attributes_list(frame, fm)
        full == set_column(applied.new_df, "Attributes",
                           [i \in 1..n |-> ListValue(attrs[i])])
    IN [raised |-> applied.raised, exc |-> applied.exc, warned |-> applied.warned,
        json_rows |-> IF applied.raised THEN <<>> ELSE to_json_rows(full, n)]

----------------------------------------------------------------------------
(* State *)

\* lines 66-74
FileStats(now) ==
    [total_rows |-> 0, processed_rows |-> 0, failed_rows |-> 0,
     status |-> "not_processed", error_message |-> Null,
     start_time |-> Some(now), end_time |-> Null]

\* mappings[filename]: the entry of a dict; a list takes no text index
getitem(document, filename) ==
    IF document.kind = "dict" THEN Return(document.value)
    ELSE Raise(Exception("TypeError",
                         "list indices must be integers or slices, not str"),
               document.value)

\* the entry of the loop
filename == listing[idx]

Init ==
    /\ pc = "main"
    /\ mappings = NoMappings
    /\ listing = <<>>
    /\ idx = 1
    /\ stats = <<>>
    /\ file_mapping = NotAFileMapping("NoneType")
    /\ valid = Null
    /\ df = NoFrame
    /\ json_rows = <<>>
    /\ sink_batch = <<>>
    /\ exc = Null
    /\ clock = 1
    /\ sink_log = <<>>
    /\ parse_log = {}
    /\ warnings = {}
    /\ returned = FALSE
    /\ stats_file = Null
    /\ exit_status = "running"

\* an exception leaves process_files (or save_statistics) for main's handler
Propagate(e) ==
    /\ exc' = Some(e)
    /\ pc' = "main_except"

\* an exception raised inside the try block of lines 93-162
RaiseInTry(e) ==
    /\ exc' = Some(e)
    /\ pc' = "except"

----------------------------------------------------------------------------
(* process_files *)

\* line 40
CreateClient ==
    /\ pc = "main"
    /\ \E ok \in BOOLEAN :
         IF ok THEN pc' = "load_mappings" /\ exc' = exc
         ELSE Propagate(Exception("DefaultCredentialsError",
                                  "Could not determine credentials"))
    /\ UNCHANGED <<mappings, listing, idx, stats, file_mapping, valid, df, json_rows,
                   sink_batch, clock, sink_log, parse_log, warnings, returned, stats_file,
                   exit_status>>

\* line 42
LoadColumnMappings ==
    /\ pc = "load_mappings"
    /\ \E mapping_file \in MappingFileNames, content \in MappingFileContents :
         LET r == load_column_mappings(mapping_file, content)
         IN IF r.raised
            THEN Propagate(r.exc) /\ mappings' = mappings
            ELSE mappings' = r.value /\ pc' = "listdir" /\ exc' = exc
    /\ UNCHANGED <<listing, idx, stats, file_mapping, valid, df, json_rows,
                   sink_batch, clock, sink_log, parse_log, warnings, returned, stats_file,
                   exit_status>>

\* line 63: os.listdir(directory)
ListDirectory ==
    /\ pc = "listdir"
    /\ \/ \E entries \in Listings :
            /\ listing' = entries
            /\ pc' = "loop"
            /\ exc' = exc
       \/ /\ Propagate(Exception("FileNotFoundError", "No such file or directory"))
          /\ listing' = listing
    /\ UNCHANGED <<mappings, idx, stats, file_mapping, valid, df, json_rows,
                   sink_batch, clock, sink_log, parse_log, warnings, returned, stats_file,
                   exit_status>>

\* what the pre-checks of lines 76-91 decide for one entry: the iteration
\* ends with a status and a message ("continue"), an exception leaves the
\* function ("raise"), or the try block is entered ("try")
Decision(kind, status, message, e, fm, validated) ==
    [kind |-> kind, status |-> status, message |-> message, exc |-> e,
     file_mapping |-> fm, valid |-> validated]
NoException == Exception("", "")

\* the variant with the mapping lookup ahead of the extension check
prechecks_lookup_first(document, name, current) ==
    LET known == contains(document, name)
        entry == getitem(document, name)
        checked == validate_mapping_config(entry.value, name)
    IN IF known.raised
       THEN Decision("raise", "", "", known.exc, current, Null)
       ELSE IF ~known.value
       THEN Decision("continue", "skipped", "No mapping configuration found",
                     NoException, current, Null)
       ELSE IF ~endswith_any(name, {".xlsx", ".csv"})
       THEN Decision("continue", "skipped", "Not a supported file type",
                     NoException, current, Null)
       ELSE IF entry.raised
       THEN Decision("raise", "", "", entry.exc, current, Null)
       ELSE IF checked.raised
       THEN Decision("raise", "", "", checked.exc, entry.value, Null)
       ELSE IF ~checked.value
       THEN Decision("continue", "failed", "Invalid mapping configuration",
                     NoException, entry.value, Some(FALSE))
       ELSE Decision("try", "", "", NoException, entry.value, Some(TRUE))

\* lines 76-91
prechecks(document, name, current) ==
    LET known == contains(document, name)
        entry == getitem(document, name)
        checked == validate_mapping_config(entry.value, name)
    IN IF ~endswith_any(name, {".xlsx", ".csv"})
       THEN Decision("continue", "skipped", "Not a supported file type",
                     NoException, current, Null)
       ELSE IF known.raised
       THEN Decision("raise", "", "", known.exc, current, Null)
       ELSE IF ~known.value
       THEN Decision("continue", "skipped", "No mapping configuration found",
                     NoException, current, Null)
       ELSE IF entry.raised
       THEN Decision("raise", "", "", entry.exc, current, Null)
       ELSE IF checked.raised
       THEN Decision("raise", "", "", checked.exc, entry.value, Null)
       ELSE IF ~checked.value
       THEN Decision("continue", "failed", "Invalid mapping configuration",
                     NoException, entry.value, Some(FALSE))
       ELSE Decision("try", "", "", NoException, entry.value, Some(TRUE))

\* lines 63-91: the next directory entry; its statistics, then the pre-checks
NextFile ==
    /\ pc = "loop"
    /\ idx <= Len(listing)
    /\ clock' = clock + 1
    /\ LET created == (filename :> FileStats(clock)) @@ stats
           d == prechecks(mappings, filename, file_mapping)
       IN /\ file_mapping' = d.file_mapping
          /\ valid' = d.valid
          /\ CASE d.kind = "continue" ->
                    /\ stats' = [created EXCEPT
                                    ![filename].status = d.status,
                                    ![filename].error_message = Some(d.message)]
                    /\ idx' = idx + 1
                    /\ pc' = "loop"
                    /\ exc' = exc
               [] d.kind = "raise" ->
                    /\ Propagate(d.exc)
                    /\ stats' = created
                    /\ idx' = idx
               [] OTHER ->
                    /\ stats' = created
                    /\ idx' = idx
                    /\ pc' = "parse"
                    /\ exc' = exc
    /\ UNCHANGED <<mappings, listing, df, json_rows, sink_batch, sink_log, parse_log,
                   warnings, returned, stats_file, exit_status>>

\* lines 94-99: pd.read_excel / pd.read_csv, then total_rows
ParseFile ==
    /\ pc = "parse"
    /\ \/ \E parsed \in Datasets :
            /\ df' = parsed
            /\ stats' = [stats EXCEPT ![filename].total_rows = len(parsed)]
            /\ pc' = "normalize"
            /\ exc' = exc
       \/ /\ IF endswith(filename, ".xlsx")
             THEN RaiseInTry(Exception("BadZipFile", "File is not a zip file"))
             ELSE RaiseInTry(Exception("ParserError", "Error tokenizing data"))
          /\ UNCHANGED <<df, stats>>
    /\ parse_log' = parse_log \cup {filename}
    /\ UNCHANGED <<mappings, listing, idx, file_mapping, valid, json_rows, sink_batch,
                   clock, sink_log, warnings, returned, stats_file, exit_status>>

\* lines 102-151
Normalize ==
    /\ pc = "normalize"
    /\ LET r == normalize(df, file_mapping, filename)
       IN /\ warnings' = warnings \cup r.warned
          /\ IF r.raised
             THEN RaiseInTry(r.exc) /\ json_rows' = json_rows
             ELSE json_rows' = r.json_rows /\ pc' = "load_table" /\ exc' = exc
    /\ UNCHANGED <<mappings, listing, idx, stats, file_mapping, valid, df, sink_batch,
                   clock, sink_log, parse_log, returned, stats_file, exit_status>>

\* one call of the sink, as the log keeps it
SinkCall(name, rows, ok) == [file |-> name, rows |-> rows, ok |-> ok]

\* the variant that loses the last record of the batch
batch_without_last(rows) == SubSeq(rows, 1, Len(rows) - 1)

\* what line 158 hands to the sink
batch_of(rows) == rows

\* lines 153-159: one load job for the whole file, awaited
LoadTableFromJson ==
    /\ pc = "load_table"
    /\ sink_batch' = batch_of(json_rows)
    /\ \E ok \in BOOLEAN :
         /\ sink_log' = Append(sink_log, SinkCall(filename, Len(batch_of(json_rows)), ok))
         /\ IF ok THEN pc' = "mark_success" /\ exc' = exc
            ELSE RaiseInTry(Exception("BadRequest", "Error while reading data"))
    /\ UNCHANGED <<mappings, listing, idx, stats, file_mapping, valid, df, json_rows,
                   clock, parse_log, warnings, returned, stats_file, exit_status>>

\* lines 161-162
MarkSuccess ==
    /\ pc = "mark_success"
    /\ stats' = [stats EXCEPT ![filename].status = "success",
                              ![filename].processed_rows = Len(json_rows)]
    /\ pc' = "finally"
    /\ UNCHANGED <<mappings, listing, idx, file_mapping, valid, df, json_rows,
                   sink_batch, exc, clock, sink_log, parse_log, warnings, returned, stats_file,
                   exit_status>>

\* the variant of the handler that records the message but not the status
ExceptHandlerKeepsStatus ==
    /\ pc = "except"
    /\ stats' = [stats EXCEPT ![filename].error_message = Some(ExcText(exc[1]))]
    /\ pc' = "finally"
    /\ UNCHANGED <<mappings, listing, idx, file_mapping, valid, df, json_rows,
                   sink_batch, exc, clock, sink_log, parse_log, warnings, returned,
                   stats_file, exit_status>>

\* lines 164-167
ExceptHandler ==
    /\ pc = "except"
    /\ stats' = [stats EXCEPT ![filename].status = "failed",
                              ![filename].error_message = Some(ExcText(exc[1]))]
    /\ pc' = "finally"
    /\ UNCHANGED <<mappings, listing, idx, file_mapping, valid, df, json_rows,
                   sink_batch, exc, clock, sink_log, parse_log, warnings, returned, stats_file,
                   exit_status>>

\* lines 169-170, then the next iteration.  The locals of the iteration are
\* dead from here on (each is assigned before it is read) and are cleared.
Finally ==
    /\ pc = "finally"
    /\ stats' = [stats EXCEPT ![filename].end_time = Some(clock)]
    /\ clock' = clock + 1
    /\ idx' = idx + 1
    /\ pc' = "loop"
    /\ df' = NoFrame
    /\ json_rows' = <<>>
    /\ sink_batch' = <<>>
    /\ exc' = Null
    /\ UNCHANGED <<mappings, listing, file_mapping, valid, sink_log, parse_log, warnings,
                   returned, stats_file, exit_status>>

\* line 172
ReturnStats ==
    /\ pc = "loop"
    /\ idx > Len(listing)
    /\ returned' = TRUE
    /\ pc' = "save"
    /\ UNCHANGED <<mappings, listing, idx, stats, file_mapping, valid, df, json_rows,
                   sink_batch, exc, clock, sink_log, parse_log, warnings, stats_file, exit_status>>

----------------------------------------------------------------------------
(* main *)

\* line 199: save_statistics
SaveStatistics ==
    /\ pc = "save"
    /\ \/ /\ stats_file' = Some(stats)
          /\ pc' = "summary"
          /\ exc' = exc
       \/ /\ Propagate(Exception("PermissionError", "Permission denied"))
          /\ stats_file' = stats_file
    /\ UNCHANGED <<mappings, listing, idx, stats, file_mapping, valid, df, json_rows,
                   sink_batch, clock, sink_log, parse_log, warnings, returned, exit_status>>

\* lines 201-209, then the end of main
PrintSummary ==
    /\ pc = "summary"
    /\ pc' = "done"
    /\ exit_status' = "0"
    /\ UNCHANGED <<mappings, listing, idx, stats, file_mapping, valid, df, json_rows,
                   sink_batch, exc, clock, sink_log, parse_log, warnings, returned, stats_file>>

\* lines 211-213
MainExcept ==
    /\ pc = "main_except"
    /\ pc' = "done"
    /\ exit_status' = "1"
    /\ UNCHANGED <<mappings, listing, idx, stats, file_mapping, valid, df, json_rows,
                   sink_batch, exc, clock, sink_log, parse_log, warnings, returned, stats_file>>

Next ==
    \/ CreateClient
    \/ LoadColumnMappings
    \/ ListDirectory
    \/ NextFile
    \/ ParseFile
    \/ Normalize
    \/ LoadTableFromJson
    \/ MarkSuccess
    \/ ExceptHandler
    \/ Finally
    \/ ReturnStats
    \/ SaveStatistics
    \/ PrintSummary
    \/ MainExcept

Spec == Init /\ [][Next]_vars

----------------------------------------------------------------------------
(* Vocabulary of the properties, stated without the operators of the model *)

Terminal == {"skipped", "failed", "success"}

\* the directory entries whose loop iteration has ended
Handled == {listing[i] : i \in 1..(IF idx - 1 < Len(listing) THEN idx - 1 ELSE Len(listing))}

\* the entry of the loop is inside its iteration
InIteration == pc \in {"parse", "normalize", "load_table", "mark_success", "except", "finally"}

\* the sink calls made for a file
CallsFor(f) == {j \in DOMAIN sink_log : sink_log[j].file = f}

\* the sink has been called for the entry of the loop, in this iteration
Loaded == InIteration /\ idx <= Len(listing) /\ CallsFor(listing[idx]) # {}

\* that call has completed successfully
LoadSucceeded == Loaded /\ \A j \in CallsFor(listing[idx]) : sink_log[j].ok

SupportedName(f) == f \in {"a.csv", "b.xlsx"}

WellFormed(m) ==
    /\ m.kind = "dict"
    /\ "columns" \in m.keys
    /\ m.columns.kind = "dict"
    /\ ("attributes" \in m.keys => m.attributes.kind = "dict")

Blank(v) == v.kind = "NoneType" \/ (v.kind = "float" /\ v.text = "nan")
NullIfBlank(v) == IF Blank(v) THEN PyNone ELSE v

\* the columns-mapping entries of the current file whose source column is in
\* the parsed file, and those whose source column is not
Entries == file_mapping.columns.items
Present == {k \in 1..Len(Entries) : Entries[k][1] \in df.columns}
Absent == {k \in 1..Len(Entries) : Entries[k][1] \notin df.columns}
\* no later entry with a present source column writes the same target
LastForTarget(k) == \A m \in Present : m > k => Entries[m][2] # Entries[k][2]

----------------------------------------------------------------------------
(* C1 *)

\* C1: in the statistics process_files returns, every entry has start_time
\* and end_time set, whichever terminal status it reached (stated for the
\* runs whose mapping document is a mapping).
C1_EndTimeAlwaysSet ==
    (returned /\ mappings.kind = "dict") =>
        \A f \in DOMAIN stats :
            stats[f].start_time # Null /\ stats[f].end_time # Null

----------------------------------------------------------------------------
(* C2 *)

\* C2: once load_column_mappings has returned, every error raised while
\* handling a directory entry is caught at that entry: when the run ends,
\* every listed entry has a FileStats entry with a terminal status and
\* process_files has returned.
C2_EveryEntryHandled ==
    (pc = "done" /\ mappings # NoMappings /\ Len(listing) > 0) =>
        /\ returned
        /\ \A i \in 1..Len(listing) :
              /\ listing[i] \in DOMAIN stats
              /\ stats[listing[i]].status \in Terminal

----------------------------------------------------------------------------
(* C3 *)

Untouched(f) ==
    /\ f \notin parse_log
    /\ CallsFor(f) = {}
    /\ stats[f].total_rows = 0
    /\ stats[f].processed_rows = 0
    /\ stats[f].failed_rows = 0

\* C3: for every directory entry whose iteration has ended, the first
\* matching pre-check decided the outcome: unsupported name, then no entry in
\* the mapping document, then an ill-formed entry; in these three cases the
\* file was never parsed, the sink never called and the row counters are 0;
\* an entry that passes all three was handed to the parser.
C3_PreChecksInOrder ==
    \A f \in Handled :
        IF ~SupportedName(f)
        THEN /\ stats[f].status = "skipped"
             /\ stats[f].error_message = Some("Not a supported file type")
             /\ Untouched(f)
        ELSE IF f \notin mappings.keys
        THEN /\ stats[f].status = "skipped"
             /\ stats[f].error_message = Some("No mapping configuration found")
             /\ Untouched(f)
        ELSE IF ~WellFormed(mappings.value)
        THEN /\ stats[f].status = "failed"
             /\ stats[f].error_message = Some("Invalid mapping configuration")
             /\ Untouched(f)
        ELSE /\ f \in parse_log
             /\ stats[f].status \in {"failed", "success"}

\* a supported entry with an ill-formed mapping was failed after an
\* unsupported entry that has a mapping entry was skipped
C3_Witness ==
    /\ Len(listing) = MaxFiles
    /\ idx > 2
    /\ ~SupportedName(listing[1]) /\ listing[1] \in mappings.keys
    /\ stats[listing[1]].status = "skipped"
    /\ SupportedName(listing[2])
    /\ stats[listing[2]].error_message = Some("Invalid mapping configuration")

----------------------------------------------------------------------------
(* C4 *)

\* C4: a file has status success only after exactly one sink load call for
\* it has completed successfully, carrying all its records in one batch:
\* processed_rows = rows sent = total_rows, and error_message is null.
C4_SuccessAfterOneLoad ==
    /\ \A f \in DOMAIN stats : Cardinality(CallsFor(f)) <= 1
    /\ \A f \in DOMAIN stats :
          stats[f].status = "success" =>
             /\ Cardinality(CallsFor(f)) = 1
             /\ \A j \in CallsFor(f) :
                   /\ sink_log[j].ok
                   /\ sink_log[j].rows = stats[f].processed_rows
                   /\ sink_log[j].rows = stats[f].total_rows
             /\ stats[f].error_message = Null
    /\ Loaded =>
          /\ sink_batch = json_rows
          /\ Len(sink_batch) = Len(df.rows)
          /\ stats[listing[idx]].total_rows = Len(df.rows)

\* a file with data rows and a file with none both reached success
C4_Witness ==
    /\ \E f \in DOMAIN stats :
          stats[f].status = "success" /\ stats[f].processed_rows = MaxRows
    /\ \E f \in DOMAIN stats :
          stats[f].status = "success" /\ stats[f].total_rows = 0

----------------------------------------------------------------------------
(* C5 *)

\* C5: failed_rows is 0 for every file and processed_rows is non-zero only
\* for a file whose status is success; after an exception from the parser,
\* the normalisation or the sink, the entry is failed with the exception's
\* text, processed_rows 0, and total_rows the parsed row count (0 when the
\* parser raised).
C5_ExceptionRecorded ==
    /\ \A f \in DOMAIN stats :
          /\ stats[f].failed_rows = 0
          /\ stats[f].processed_rows # 0 => stats[f].status = "success"
    /\ (pc = "finally" /\ exc # Null) =>
          /\ stats[listing[idx]].status = "failed"
          /\ stats[listing[idx]].error_message = Some(exc[1].msg)
          /\ stats[listing[idx]].processed_rows = 0
          /\ stats[listing[idx]].total_rows = Len(df.rows)
          /\ (listing[idx] \in parse_log /\ df = NoFrame) =>
                exc[1].type \in {"ParserError", "BadZipFile"}
    /\ \A f \in Handled :
          (f \in parse_log /\ stats[f].status # "success") =>
             /\ stats[f].status = "failed"
             /\ stats[f].error_message # Null
             /\ stats[f].error_message # Some("Invalid mapping configuration")

\* one run saw an exception from each stage: the sink raised for a file with
\* rows after the normalisation of an earlier file had raised
C5_Witness ==
    /\ pc = "finally"
    /\ exc # Null
    /\ exc[1].type = "BadRequest"
    /\ stats[listing[idx]].total_rows = MaxRows
    /\ \E f \in Handled : stats[f].error_message = Some("unhashable type: 'dict'")

----------------------------------------------------------------------------
(* C6 *)

\* C6: validate_mapping_config never raises and returns false exactly when
\* the value is not a mapping, or has no columns key, or its columns value is
\* not a mapping, or it has an attributes key whose value is not a mapping.
C6_ValidateShape ==
    /\ valid # Null => valid = Some(WellFormed(file_mapping))
    /\ \A f \in Handled :
          (SupportedName(f) /\ mappings.kind = "dict" /\ f \in mappings.keys) =>
             (stats[f].error_message = Some("Invalid mapping configuration")
                <=> ~WellFormed(mappings.value))
    /\ (pc \in {"main_except", "done"} /\ idx <= Len(listing) /\ mappings.kind = "dict")
          => exc = Null
    /\ InIteration => valid = Some(TRUE)

\* a columns mapping with zero entries was accepted
C6_Witness ==
    /\ valid = Some(TRUE)
    /\ file_mapping.columns.items = <<>>
    /\ "attributes" \notin file_mapping.keys
    /\ pc = "parse"

----------------------------------------------------------------------------
(* C7 *)

----------------------------------------------------------------------------
(* C8 *)

\* the attributes-mapping entries that contribute to record i
AttrEntries == file_mapping.attributes.items
Contributing(i) ==
    IF "attributes" \in file_mapping.keys
    THEN {k \in 1..Len(AttrEntries) :
             /\ AttrEntries[k][1] \in df.columns
             /\ ~Blank(df.rows[i][AttrEntries[k][1]])}
    ELSE {}
\* the j-th of them in the mapping's order
Nth(i, j) ==
    CHOOSE k \in Contributing(i) : Cardinality({m \in Contributing(i) : m <= k}) = j
StringForm(v) ==
    CASE v = FloatCell -> "7.5"
      [] v = StrCell -> "x"
      [] OTHER -> "?"

\* C8: the Attributes of record i are one {Key, Value} entry for exactly the
\* attributes-mapping entries whose source column exists and whose value in
\* row i is non-blank, in the mapping's order, Value being the string form;
\* without an attributes key every record's Attributes is empty.
C8_AttributesExact ==
    Loaded =>
        \A i \in 1..Len(sink_batch) :
            LET attrs == sink_batch[i]["Attributes"]
            IN /\ attrs.kind = "list"
               /\ Len(attrs.items) = Cardinality(Contributing(i))
               /\ \A j \in 1..Len(attrs.items) :
                     /\ attrs.items[j].Key = AttrEntries[Nth(i, j)][2]
                     /\ attrs.items[j].Value =
                           StringForm(df.rows[i][AttrEntries[Nth(i, j)][1]])

\* one record with both attributes in mapping order, one with the first
\* attribute omitted for a blank
C8_Witness ==
    /\ Loaded
    /\ Len(sink_batch) = MaxRows
    /\ Len(sink_batch[1]["Attributes"].items) = 2
    /\ sink_batch[1]["Attributes"].items[1].Key = "Mail"
    /\ sink_batch[2]["Attributes"].items = <<[Key |-> "Nick", Value |-> "x"]>>
    /\ df.rows[2]["email"] = NaN

----------------------------------------------------------------------------
(* C9 *)

DefaultOf(field) ==
    CASE field \in {"Id", "FirstName", "LastName", "Email", "Mobile", "PostCode"} -> PyNone
      [] field = "DataSource" ->
            Scalar("str", IF "data_source" \in file_mapping.keys
                          THEN file_mapping.data_source ELSE "unknown")
      [] field = "SourceFile" -> Scalar("str", listing[idx])
      [] OTHER -> NowText

\* no entry with a present source column writes the target of entry k
NotPopulated(k) == \A m \in Present : Entries[m][2] # Entries[k][2]

\* C9 as claimed: an entry whose source column is absent is skipped with a
\* warning, the file still reaches success when parse and sink succeed, and
\* the entry's target field is null in every record unless another entry
\* populated it.
C9_SkippedTargetNull ==
    /\ LoadSucceeded =>
          \A k \in Absent :
              /\ Warning(Entries[k][1], listing[idx]) \in warnings
              /\ (Entries[k][2].hashable /\ NotPopulated(k)) =>
                    \A i \in 1..Len(sink_batch) :
                       /\ Entries[k][2].name \in DOMAIN sink_batch[i]
                       /\ sink_batch[i][Entries[k][2].name] = PyNone
    /\ (LoadSucceeded /\ pc = "finally") => stats[listing[idx]].status = "success"

\* C9 as amended: ... and the entry's target field keeps its default in every
\* record unless another entry populated it: null for Id, FirstName,
\* LastName, Email, Mobile and PostCode, the default value for DataSource,
\* SourceCreatedDate, SourceModifiedDate, SourceFile and BQInsertedDate, the
\* attribute list for Attributes, and no field at all for any other target;
\* the entries whose source column exists are still applied.
C9_SkippedTargetKeepsDefault ==
    /\ LoadSucceeded =>
          \A k \in Absent :
              /\ Warning(Entries[k][1], listing[idx]) \in warnings
              /\ (Entries[k][2].hashable /\ NotPopulated(k)) =>
                    \A i \in 1..Len(sink_batch) :
                       LET field == Entries[k][2].name
                       IN IF field = "Attributes"
                          THEN sink_batch[i][field].kind = "list"
                          ELSE IF field \in DefaultFields
                          THEN sink_batch[i][field] = DefaultOf(field)
                          ELSE field \notin DOMAIN sink_batch[i]
    /\ LoadSucceeded =>
          \A k \in Present : \A i \in 1..Len(sink_batch) :
              (Absent # {} /\ LastForTarget(k)) =>
                  sink_batch[i][Entries[k][2].name] # PyNone
                     \/ Blank(df.rows[i][Entries[k][1]])
    /\ (LoadSucceeded /\ pc = "finally") => stats[listing[idx]].status = "success"

\* a file with rows reached success although one of its two entries names a
\* column the file does not have
C9_Witness ==
    /\ LoadSucceeded
    /\ pc = "finally"
    /\ stats[listing[idx]].status = "success"
    /\ Len(sink_batch) = MaxRows
    /\ Absent # {}
    /\ Present # {}
    /\ df.rows[1]["name"] # NaN

----------------------------------------------------------------------------
(* C10 *)

\* C10: every record handed to the sink has SourceFile equal to the file's
\* name, for every columns mapping that validate_mapping_config accepts.
C10_SourceFileIsFilename ==
    Loaded =>
        \A i \in 1..Len(sink_batch) :
            /\ "SourceFile" \in DOMAIN sink_batch[i]
            /\ sink_batch[i]["SourceFile"] = Scalar("str", listing[idx])

====
